---- MODULE Spec2Model ----
(***************************************************************************)
(* A model of TinyCPU (src/cozputer.py): a byte queue, a 256-cell memory   *)
(* and a run loop that dispatches four opcodes.  The robot's say_text is   *)
(* the only output; it is recorded in `said`.                              *)
(***************************************************************************)
EXTENDS Integers, Sequences, FiniteSets, TLC

(* ---- program constants ------------------------------------------------ *)
MEM_SIZE == 256
LOAD == 16
ADD == 17
SAY == 18
RET == 19

(* ---- bounds of the model ---------------------------------------------- *)
\* Programs of up to MaxProg bytes over ByteSet are explored exhaustively.
MaxProg == 4

\* Bytes the caller may pass to byte(): the four opcodes (which double as
\* addresses 16..19 and values), 255 (no handler, last cell) and 256 (an
\* index outside the list).
ByteSet == {LOAD, ADD, SAY, RET, 255, 256}

\* The worked example of the module docstring.
Example == <<16, 0, 23, 16, 1, 19, 17, 0, 1, 18, 0, 19>>

\* Longer programs that are fed byte by byte in addition to the short ones.
Scenarios ==
  { Example,
    <<19, 16, 0, 23, 19, 19, 16, 1, 19, 17, 0, 1, 19, 18, 0, 19>>,
    <<16, 0, 200, 17, 0, 0, 18, 0, 17, 0, 0>>,
    <<16, 1, 9, 16, 0, 5, 16, 0, 7, 19>>,
    <<16, 1, 7, 18, 1, 17, 1, 1, 18, 1, 18, 0>>,
    <<16, 5>>,
    <<16, 0, 23, 17, 0>>,
    <<16, 0, 23, 18, 0, 18>>,
    <<16, 1, 7, 17, 0, 1, 18, 0>>,
    <<16, 0, 23, 255, 18, 0>>,
    <<16, 0, 23, 18, 0, 18, 256, 16, 1, 5>>,
    <<16, 1, 7, 17, 1, 511, 18, 1>>,
    <<16, 0, 23, 16, 300, 5>>,
    <<16, 18, 19, 18, 18>> }

IsPrefix(s, t) == Len(s) <= Len(t) /\ SubSeq(t, 1, Len(s)) = s

(* ---- state ------------------------------------------------------------ *)
VARIABLES
  memory,    \* self.memory: cell index -> integer
  prog,      \* self.prog: the deque of pending bytes
  pc,        \* where the single thread of control is
  speaking,  \* number of say_text actions started and not yet completed
  said,      \* the texts passed to robot.say_text, in call order
  result,    \* how the last run() call ended
  fed,       \* every byte ever passed to byte(), in order
  consumed,  \* every byte ever popped by run() or a handler, in order
  mem0,      \* memory when the current/last run() was called
  prog0,     \* prog when the current/last run() was called
  said0,     \* said when the current/last run() was called
  rb_pc,     \* where Cozputer.run / read_byte / read_bits is
  rb_i,      \* read_byte: the loop index i
  rb_byte,   \* read_byte: the local byte
  rb_bits,   \* read_bits: the local bits of the innermost call
  rb_conf,   \* the readings confirmed by a tap during this read_byte call
  rb_redos   \* the readings discarded during this read_byte call

rbvars == <<rb_pc, rb_i, rb_byte, rb_bits, rb_conf, rb_redos>>

vars == <<memory, prog, pc, speaking, said, result, fed, consumed,
          mem0, prog0, said0, rbvars>>

Addr == 0 .. (MEM_SIZE - 1)

\* The opcode -> handler table built in __init__.
INSTRUCTIONS ==
  (LOAD :> "ins_load") @@ (ADD :> "ins_add") @@
  (SAY :> "ins_say") @@ (RET :> "ins_ret")

(* ---- Python helpers --------------------------------------------------- *)
\* list indexing: a negative index counts from the end; anything outside
\* the list raises IndexError.
InRange(i) == i >= -MEM_SIZE /\ i < MEM_SIZE
PyIndex(i) == IF i < 0 THEN i + MEM_SIZE ELSE i

Digit(d) == <<"0", "1", "2", "3", "4", "5", "6", "7", "8", "9">>[d + 1]

RECURSIVE DigitsLsbFirst(_)
DigitsLsbFirst(n) == IF n < 10 THEN <<Digit(n)>>
                     ELSE <<Digit(n % 10)>> \o DigitsLsbFirst(n \div 10)

RECURSIVE Digits(_)
Digits(n) == IF n < 10 THEN <<Digit(n)>>
             ELSE Append(Digits(n \div 10), Digit(n % 10))

\* str(int): decimal digits, most significant first, "-" for negatives.
PyStr(n) == IF n < 0 THEN <<"-">> \o Digits(-n) ELSE Digits(n)

(* ---- run() as a function ---------------------------------------------- *)
\* Operand bytes each handler pops, and which of them index memory.
Arity(op) == CASE op = LOAD -> 2 [] op = ADD -> 2 [] op = SAY -> 1 [] op = RET -> 0

AddrOperands(op) ==
  CASE op = LOAD -> {1} [] op = ADD -> {1, 2} [] op = SAY -> {1} [] op = RET -> {}

Drop(q, n) == SubSeq(q, n + 1, Len(q))

\* The outcome of one run() call entered with queue q and memory mem: the
\* loop of run() with the four handlers inlined; out collects the texts
\* passed to say_text.
RECURSIVE Exec(_, _, _)
Exec(q, mem, out) ==
  IF Len(q) = 0
    THEN [memory |-> mem, said |-> out, prog |-> q, result |-> "returned"]
  ELSE IF q[1] \notin DOMAIN INSTRUCTIONS
    THEN [memory |-> mem, said |-> out, prog |-> Tail(q), result |-> "KeyError"]
  ELSE IF Len(q) < 1 + Arity(q[1])
    THEN [memory |-> mem, said |-> out, prog |-> <<>>, result |-> "IndexError"]
  ELSE IF \E i \in AddrOperands(q[1]) : ~InRange(q[1 + i])
    THEN [memory |-> mem, said |-> out, prog |-> Drop(q, 1 + Arity(q[1])),
          result |-> "IndexError"]
  ELSE CASE q[1] = LOAD ->
              Exec(Drop(q, 3), [mem EXCEPT ![PyIndex(q[2])] = q[3]], out)
         [] q[1] = ADD ->
              Exec(Drop(q, 3),
                   [mem EXCEPT ![PyIndex(q[2])] = mem[PyIndex(q[2])] + mem[PyIndex(q[3])]],
                   out)
         [] q[1] = SAY ->
              Exec(Drop(q, 2), mem, Append(out, PyStr(mem[PyIndex(q[2])])))
         [] q[1] = RET ->
              Exec(Drop(q, 1), mem, out)

(* ---- construction ----------------------------------------------------- *)
Init ==
  /\ memory = [a \in Addr |-> 0]
  /\ prog = <<>>
  /\ pc = "idle"
  /\ speaking = 0
  /\ said = <<>>
  /\ result = "none"
  /\ fed = <<>>
  /\ consumed = <<>>
  /\ mem0 = [a \in Addr |-> 0]
  /\ prog0 = <<>>
  /\ said0 = <<>>
  /\ rb_pc = "prompt"
  /\ rb_i = 0
  /\ rb_byte = 0
  /\ rb_bits = 0
  /\ rb_conf = <<>>
  /\ rb_redos = 0

(* ---- byte() ----------------------------------------------------------- *)
CanFeed(s) ==
  \/ Len(s) <= MaxProg /\ s[Len(s)] \in ByteSet
  \/ \E sc \in Scenarios : IsPrefix(s, sc)

FeedSet == ByteSet \cup UNION { {sc[i] : i \in 1 .. Len(sc)} : sc \in Scenarios }

ByteAppendLeft(b) ==
  /\ pc = "idle"
  /\ CanFeed(Append(fed, b))
  /\ prog' = <<b>> \o prog
  /\ fed' = Append(fed, b)
  /\ UNCHANGED <<memory, pc, speaking, said, result, consumed,
                 mem0, prog0, said0>>
  /\ UNCHANGED rbvars

\* self.prog.append(byte)
Enqueue(b) ==
  /\ prog' = Append(prog, b)
  /\ fed' = Append(fed, b)
  /\ UNCHANGED <<memory, pc, speaking, said, result, consumed,
                 mem0, prog0, said0>>

\* A caller of the TinyCPU object calls byte(b).
Byte(b) ==
  /\ pc = "idle"
  /\ CanFeed(Append(fed, b))
  /\ Enqueue(b)
  /\ UNCHANGED rbvars

(* ---- run() ------------------------------------------------------------ *)
RunResetsMemory ==
  /\ pc = "idle"
  /\ pc' = "loop"
  /\ result' = "running"
  /\ memory' = [a \in Addr |-> 0]
  /\ mem0' = memory
  /\ prog0' = prog
  /\ said0' = said
  /\ UNCHANGED <<prog, speaking, said, fed, consumed>>
  /\ UNCHANGED rbvars

\* Control enters run().
EnterRun ==
  /\ pc = "idle"
  /\ pc' = "loop"
  /\ result' = "running"
  /\ mem0' = memory
  /\ prog0' = prog
  /\ said0' = said
  /\ UNCHANGED <<memory, prog, speaking, said, fed, consumed>>

\* A caller of the TinyCPU object calls run().
Run ==
  /\ EnterRun
  /\ UNCHANGED rbvars

RunReturnEarly ==
  /\ pc = "loop"
  /\ Len(prog) <= 1
  /\ pc' = "idle"
  /\ result' = "returned"
  /\ UNCHANGED <<memory, prog, speaking, said, fed, consumed,
                 mem0, prog0, said0>>
  /\ UNCHANGED rbvars

\* while len(self.prog) > 0 is false: run() returns.
RunReturn ==
  /\ pc = "loop"
  /\ Len(prog) = 0
  /\ pc' = "idle"
  /\ result' = "returned"
  /\ UNCHANGED <<memory, prog, speaking, said, fed, consumed,
                 mem0, prog0, said0>>
  /\ UNCHANGED rbvars

LookupDefault(b) == IF b \in DOMAIN INSTRUCTIONS THEN INSTRUCTIONS[b] ELSE "ins_ret"

\* The handler the dispatch of opcode b enters; a missing key raises
\* KeyError out of run().
Lookup(b) == IF b \in DOMAIN INSTRUCTIONS THEN INSTRUCTIONS[b] ELSE "KeyError"

DispatchFlushes ==
  /\ pc = "loop"
  /\ Len(prog) > 0
  /\ consumed' = Append(consumed, Head(prog))
  /\ IF Lookup(Head(prog)) = "KeyError"
       THEN pc' = "idle" /\ result' = "KeyError" /\ prog' = <<>>
       ELSE pc' = Lookup(Head(prog)) /\ UNCHANGED result /\ prog' = Tail(prog)
  /\ UNCHANGED <<memory, speaking, said, fed, mem0, prog0, said0>>
  /\ UNCHANGED rbvars

DispatchRollsBack ==
  /\ pc = "loop"
  /\ Len(prog) > 0
  /\ consumed' = Append(consumed, Head(prog))
  /\ IF Lookup(Head(prog)) = "KeyError"
       THEN /\ pc' = "idle" /\ result' = "KeyError"
            /\ memory' = mem0 /\ prog' = prog0
       ELSE /\ pc' = Lookup(Head(prog)) /\ UNCHANGED result
            /\ prog' = Tail(prog) /\ UNCHANGED memory
  /\ UNCHANGED <<speaking, said, fed, mem0, prog0, said0>>
  /\ UNCHANGED rbvars

\* ins = self.prog.popleft(); self.INSTRUCTIONS[ins]
Dispatch ==
  /\ pc = "loop"
  /\ Len(prog) > 0
  /\ prog' = Tail(prog)
  /\ consumed' = Append(consumed, Head(prog))
  /\ IF Lookup(Head(prog)) = "KeyError"
       THEN pc' = "idle" /\ result' = "KeyError"
       ELSE pc' = Lookup(Head(prog)) /\ UNCHANGED result
  /\ UNCHANGED <<memory, speaking, said, fed, mem0, prog0, said0>>
  /\ UNCHANGED rbvars

\* The n operand pops of a handler: when fewer than n bytes are queued the
\* ones that are there are popped and the next popleft raises IndexError.
Popped(n) == SubSeq(prog, 1, IF Len(prog) < n THEN Len(prog) ELSE n)
RestPeeksLast(n) ==
  SubSeq(prog, IF Len(Popped(n)) = 0 THEN 1 ELSE Len(Popped(n)), Len(prog))

Rest(n) == SubSeq(prog, Len(Popped(n)) + 1, Len(prog))

RaiseSwallowed(e) == pc' = "loop" /\ UNCHANGED result

\* An exception leaves the handler and run(); the caller gets it.
Raise(e) == pc' = "idle" /\ result' = e

StoreLoadAccumulate(addr, val) ==
  [memory EXCEPT ![PyIndex(addr)] = memory[PyIndex(addr)] + val]

\* memory[addr] = val
StoreLoad(addr, val) == [memory EXCEPT ![PyIndex(addr)] = val]

InsLoadClamps ==
  /\ pc = "ins_load"
  /\ prog' = Rest(2)
  /\ consumed' = consumed \o Popped(2)
  /\ IF Len(prog) < 2
       THEN Raise("IndexError") /\ UNCHANGED memory
       ELSE /\ memory' = StoreLoad(IF InRange(prog[1]) THEN prog[1] ELSE MEM_SIZE - 1,
                                   prog[2])
            /\ pc' = "loop"
            /\ UNCHANGED result
  /\ UNCHANGED <<speaking, said, fed, mem0, prog0, said0>>
  /\ UNCHANGED rbvars

InsLoad ==
  /\ pc = "ins_load"
  /\ prog' = Rest(2)
  /\ consumed' = consumed \o Popped(2)
  /\ IF Len(prog) < 2 \/ ~InRange(prog[1])
       THEN Raise("IndexError") /\ UNCHANGED memory
       ELSE /\ memory' = StoreLoad(prog[1], prog[2])
            /\ pc' = "loop"
            /\ UNCHANGED result
  /\ UNCHANGED <<speaking, said, fed, mem0, prog0, said0>>
  /\ UNCHANGED rbvars

StoreAddIntoY(x, y) ==
  [memory EXCEPT ![PyIndex(y)] = memory[PyIndex(x)] + memory[PyIndex(y)]]

StoreAddWrap(x, y) ==
  [memory EXCEPT ![PyIndex(x)] = (memory[PyIndex(x)] + memory[PyIndex(y)]) % 256]

StoreAddMinus(x, y) ==
  [memory EXCEPT ![PyIndex(x)] = memory[PyIndex(x)] - memory[PyIndex(y)]]

\* memory[x] = memory[x] + memory[y]
StoreAdd(x, y) ==
  [memory EXCEPT ![PyIndex(x)] = memory[PyIndex(x)] + memory[PyIndex(y)]]

InsAdd ==
  /\ pc = "ins_add"
  /\ prog' = Rest(2)
  /\ consumed' = consumed \o Popped(2)
  /\ IF Len(prog) < 2 \/ ~InRange(prog[1]) \/ ~InRange(prog[2])
       THEN Raise("IndexError") /\ UNCHANGED memory
       ELSE /\ memory' = StoreAdd(prog[1], prog[2])
            /\ pc' = "loop"
            /\ UNCHANGED result
  /\ UNCHANGED <<speaking, said, fed, mem0, prog0, said0>>
  /\ UNCHANGED rbvars

AfterSayTextNoWait == "loop"

\* Where ins_say goes after say_text(...) was called: it blocks in
\* wait_for_completed().
AfterSayText == "wait"

\* addr = popleft(); robot.say_text(str(memory[addr]))
InsSay ==
  /\ pc = "ins_say"
  /\ prog' = Rest(1)
  /\ consumed' = consumed \o Popped(1)
  /\ IF Len(prog) < 1 \/ ~InRange(prog[1])
       THEN Raise("IndexError") /\ UNCHANGED <<said, speaking>>
       ELSE /\ said' = Append(said, PyStr(memory[PyIndex(prog[1])]))
            /\ speaking' = speaking + 1
            /\ pc' = AfterSayText
            /\ UNCHANGED result
  /\ UNCHANGED <<memory, fed, mem0, prog0, said0>>
  /\ UNCHANGED rbvars

SayCompletedOrTimeout ==
  /\ speaking > 0
  /\ speaking' \in {speaking, speaking - 1}
  /\ pc' = IF pc = "wait" THEN "loop" ELSE pc
  /\ UNCHANGED <<memory, prog, said, result, fed, consumed,
                 mem0, prog0, said0>>
  /\ UNCHANGED rbvars

\* The robot finishes speaking; wait_for_completed() returns and ins_say with it.
SayCompleted ==
  /\ speaking > 0
  /\ speaking' = speaking - 1
  /\ pc' = IF pc = "wait" THEN "loop" ELSE pc
  /\ UNCHANGED <<memory, prog, said, result, fed, consumed,
                 mem0, prog0, said0>>
  /\ UNCHANGED rbvars

InsRetHalts ==
  /\ pc = "ins_ret"
  /\ pc' = "loop"
  /\ prog' = <<>>
  /\ consumed' = consumed \o prog
  /\ UNCHANGED <<memory, speaking, said, result, fed, mem0, prog0, said0>>
  /\ UNCHANGED rbvars

InsRetResets ==
  /\ pc = "ins_ret"
  /\ pc' = "loop"
  /\ memory' = [a \in Addr |-> 0]
  /\ UNCHANGED <<prog, speaking, said, result, fed, consumed,
                 mem0, prog0, said0>>
  /\ UNCHANGED rbvars

\* ins_ret: return
InsRet ==
  /\ pc = "ins_ret"
  /\ pc' = "loop"
  /\ UNCHANGED <<memory, prog, speaking, said, result, fed, consumed,
                 mem0, prog0, said0>>
  /\ UNCHANGED rbvars

Next ==
  \/ \E b \in FeedSet : Byte(b)
  \/ Run
  \/ RunReturn
  \/ Dispatch
  \/ InsLoad
  \/ InsAdd
  \/ InsSay
  \/ SayCompleted
  \/ InsRet

Spec == Init /\ [][Next]_vars

\* run() is a single thread that keeps executing once entered, and the
\* robot finishes every say_text action; the caller of byte() and run() is
\* under no obligation.
FairSpec ==
  /\ Spec
  /\ WF_vars(RunReturn)
  /\ WF_vars(Dispatch)
  /\ WF_vars(InsLoad)
  /\ WF_vars(InsAdd)
  /\ WF_vars(InsSay)
  /\ WF_vars(SayCompleted)
  /\ WF_vars(InsRet)

(* ---- Cozputer: programming the CPU with the cubes ---------------------- *)
\* The programs read from the cubes follow Scenarios, except that one byte
\* among the first MaxRead is arbitrary; nothing is read after a byte that
\* leaves the scenarios.
MaxRead == 1

\* A read_bits reading may be discarded (no tap) up to MaxRedo times during
\* one read_byte call.
MaxRedo == 1

OnScenario(s) == \E sc \in Scenarios : IsPrefix(s, sc)

\* The next byte read may be anything.
FreeRead == Len(fed) < MaxRead /\ OnScenario(fed)

\* The bytes with which some scenario continues the bytes read so far.
NextBytes == {sc[Len(fed) + 1] : sc \in {x \in Scenarios : Len(x) > Len(fed) /\ IsPrefix(fed, x)}}

\* a | b on non-negative integers
RECURSIVE BitOr(_, _)
BitOr(a, b) ==
  IF a = 0 THEN b
  ELSE IF b = 0 THEN a
  ELSE (IF a % 2 = 1 \/ b % 2 = 1 THEN 1 ELSE 0) + 2 * BitOr(a \div 2, b \div 2)

\* a << n
ShiftLeft(a, n) == a * 2 ^ n

ChunkMisparenthesised(bits, i) == ShiftLeft(bits, i) * 3

\* bits << i * 3
Chunk(bits, i) == ShiftLeft(bits, i * 3)

\* Where the visible cubes can lie: y > 30, in between, y < -30.
CubePlaces == {"y_high", "y_mid", "y_low"}

\* The bit read_bits sets for a cube at place c.
PlaceBit(c) == CASE c = "y_high" -> 1 [] c = "y_low" -> ShiftLeft(1, 2) [] c = "y_mid" -> ShiftLeft(1, 1)

\* The bits read_bits computes when the visible cubes occupy the places S.
RECURSIVE BitsOf(_)
BitsOf(S) ==
  IF S = {} THEN 0
  ELSE LET c == CHOOSE x \in S : TRUE IN BitOr(BitsOf(S \ {c}), PlaceBit(c))

\* Cozputer.run, loop: read_taps(3) counted 3 taps; read_byte() is entered.
CozContinue ==
  /\ rb_pc = "prompt"
  /\ pc = "idle"
  /\ FreeRead \/ NextBytes # {}
  /\ rb_pc' = "read_bits"
  /\ rb_i' = 0
  /\ rb_byte' = 0
  /\ rb_bits' = 0
  /\ rb_conf' = <<>>
  /\ rb_redos' = 0
  /\ UNCHANGED <<memory, prog, pc, speaking, said, result, fed, consumed,
                 mem0, prog0, said0>>

\* Cozputer.run: read_taps(3) counted fewer than 3 taps; break, cpu.run().
CozBreak ==
  /\ rb_pc = "prompt"
  /\ rb_pc' = "cpu"
  /\ EnterRun
  /\ UNCHANGED <<rb_i, rb_byte, rb_bits, rb_conf, rb_redos>>

\* read_bits: the places of the visible cubes give bits; it then waits for a tap.
ReadBits(S) ==
  /\ rb_pc = "read_bits"
  /\ rb_bits' = BitsOf(S)
  /\ rb_pc' = "confirm"
  /\ UNCHANGED <<memory, prog, pc, speaking, said, result, fed, consumed,
                 mem0, prog0, said0, rb_i, rb_byte, rb_conf, rb_redos>>

\* read_bits: no tap within the timeout; return self.read_bits().
Redo ==
  /\ rb_pc = "confirm"
  /\ rb_redos < MaxRedo
  /\ rb_redos' = rb_redos + 1
  /\ rb_bits' = 0
  /\ rb_pc' = "read_bits"
  /\ UNCHANGED <<memory, prog, pc, speaking, said, result, fed, consumed,
                 mem0, prog0, said0, rb_i, rb_byte, rb_conf>>

\* The confirmed readings conf can still make up the byte b.
Makes(conf, b) == \A k \in 1 .. Len(conf) : (b \div 8 ^ (k - 1)) % 8 = conf[k]

\* Confirming the reading t keeps the program among those explored.
CanConfirm(t) == FreeRead \/ \E b \in NextBytes : Makes(Append(rb_conf, t), b)

\* read_bits: a tap confirms the reading, which read_byte ORs into byte;
\* after the third one read_byte returns and Cozputer.run passes the byte
\* to cpu.byte().
Confirm ==
  /\ rb_pc = "confirm"
  /\ CanConfirm(rb_bits)
  /\ rb_byte' = BitOr(rb_byte, Chunk(rb_bits, rb_i))
  /\ rb_conf' = Append(rb_conf, rb_bits)
  /\ rb_i' = rb_i + 1
  /\ rb_bits' = 0
  /\ IF rb_i < 2
       THEN /\ rb_pc' = "read_bits"
            /\ UNCHANGED <<memory, prog, pc, speaking, said, result, fed, consumed,
                           mem0, prog0, said0>>
       ELSE /\ rb_pc' = "prompt"
            /\ Enqueue(rb_byte')
  /\ UNCHANGED rb_redos

ReadNext ==
  \/ CozContinue
  \/ CozBreak
  \/ \E S \in SUBSET CubePlaces : ReadBits(S)
  \/ Redo
  \/ Confirm
  \/ RunReturn
  \/ Dispatch
  \/ InsLoad
  \/ InsAdd
  \/ InsSay
  \/ SayCompleted
  \/ InsRet

\* The program as shipped: a Cozputer that feeds its TinyCPU from the cubes
\* and runs it once.
ReadSpec == Init /\ [][ReadNext]_vars

TypeOK ==
  /\ DOMAIN memory = Addr
  /\ pc \in {"idle", "loop", "ins_load", "ins_add", "ins_say", "ins_ret", "wait"}
  /\ result \in {"none", "running", "returned", "KeyError", "IndexError"}
  /\ speaking \in 0 .. 1

(* ======================================================================= *)
(* Properties                                                              *)
(* ======================================================================= *)
RunEnded == pc = "idle" /\ result \in {"returned", "KeyError", "IndexError"}

Zeroes == [a \in Addr |-> 0]

\* C1: from a fresh interpreter, feeding the worked example and calling
\* run() once ends with memory[0] = 42, memory[1] = 19, every other cell 0,
\* an empty queue and exactly one say_text call, of "42".
C1_WorkedExample ==
  (fed = Example /\ prog0 = Example /\ mem0 = Zeroes /\ said0 = <<>> /\ RunEnded)
    => /\ result = "returned"
       /\ memory = [a \in Addr |-> IF a = 0 THEN 42 ELSE IF a = 1 THEN 19 ELSE 0]
       /\ prog = <<>>
       /\ said = << <<"4", "2">> >>
       /\ speaking = 0

C1_Witness ==
  fed = Example /\ prog0 = Example /\ mem0 = Zeroes /\ said0 = <<>> /\ RunEnded

\* A program of complete LOAD instructions, with byte-range operands,
\* followed by one RET.
IsLoadProgram(p) ==
  /\ Len(p) % 3 = 1
  /\ p[Len(p)] = RET
  /\ \A i \in 0 .. (Len(p) \div 3) - 1 :
       p[3 * i + 1] = LOAD /\ p[3 * i + 2] \in 0 .. 255 /\ p[3 * i + 3] \in 0 .. 255

LoadsTo(p, a) == {i \in 0 .. (Len(p) \div 3) - 1 : p[3 * i + 2] = a}

LastOf(S) == CHOOSE i \in S : \A j \in S : j <= i

\* C2: after run() on a program of LOADs followed by RET, every address
\* that some LOAD targets holds the val of the last such LOAD and every
\* other address holds its value from before run().
C2_LastLoadWins ==
  (RunEnded /\ IsLoadProgram(prog0))
    => /\ result = "returned"
       /\ \A a \in Addr :
            memory[a] = IF LoadsTo(prog0, a) = {} THEN mem0[a]
                        ELSE prog0[3 * LastOf(LoadsTo(prog0, a)) + 3]

C2_Witness ==
  /\ RunEnded /\ IsLoadProgram(prog0)
  /\ \E a \in Addr : \E i, j \in LoadsTo(prog0, a) :
       i < j /\ prog0[3 * i + 3] # prog0[3 * j + 3]
  /\ \E a \in Addr : LoadsTo(prog0, a) = {} /\ mem0[a] # 0

\* ins_add is about to execute ADD x, y with both operands queued and in
\* the byte range.
AddReady ==
  pc = "ins_add" /\ Len(prog) >= 2 /\ prog[1] \in 0 .. 255 /\ prog[2] \in 0 .. 255

\* C3: executing ADD x,y leaves every cell other than memory[x] (memory[y]
\* included when x # y) as it was.
C3_AddFrame ==
  [][AddReady => \A a \in Addr \ {prog[1]} : memory'[a] = memory[a]]_vars

C3_Witness ==
  /\ consumed = <<16, 1, 7, 17, 0, 1>>
  /\ pc = "loop"
  /\ memory[0] = 7 /\ memory[1] = 7 /\ mem0[0] = 0

BytesFed == \A i \in 1 .. Len(fed) : fed[i] \in 0 .. 255

\* C4 as stated: with only bytes 0..255 enqueued, memory always has 256
\* cells and every cell holds a value in 0..255.
C4_Original ==
  BytesFed => (DOMAIN memory = Addr /\ \A a \in Addr : memory[a] \in 0 .. 255)

\* C4 (amended): with only bytes 0..255 enqueued, memory always has 256
\* cells and every cell holds a non-negative integer, which is in 0..255
\* as long as no ADD opcode byte has been consumed.
C4_CellsNonNegative ==
  BytesFed =>
    /\ DOMAIN memory = Addr
    /\ \A a \in Addr : memory[a] \in Nat
    /\ (\A i \in 1 .. Len(consumed) : consumed[i] # ADD)
         => \A a \in Addr : memory[a] \in 0 .. 255

C4_Witness ==
  BytesFed /\ \E a \in Addr : memory[a] > 255

\* C5: after ADD x,y, memory[x] is the exact integer sum of the old
\* memory[x] and memory[y] (no reduction modulo 256, no saturation); with
\* x = y the cell is doubled.
C5_AddExact ==
  [][AddReady =>
       /\ memory'[prog[1]] = memory[prog[1]] + memory[prog[2]]
       /\ (prog[1] = prog[2] => memory'[prog[1]] = 2 * memory[prog[1]])]_vars

C5_Witness ==
  /\ consumed = <<16, 0, 200, 17, 0, 0>>
  /\ pc = "loop"
  /\ memory[0] = 400

\* C6: memory changes only in the LOAD and ADD handlers: SAY, RET, the
\* opcode fetch, entering and leaving run() and byte() leave all cells as
\* they were.
C6_OnlyLoadAddWrite ==
  [][(memory' # memory) => pc \in {"ins_load", "ins_add"}]_vars

C6_Witness ==
  /\ consumed = <<16, 0, 23, 18, 0>>
  /\ fed = <<16, 0, 23, 18, 0, 18>>
  /\ pc = "loop"
  /\ memory[0] = 23
  /\ said = << <<"2", "3">> >>
  /\ speaking = 0

(* ---- shapes of programs ------------------------------------------------ *)
\* The number of leading bytes of q that form complete instructions with a
\* registered opcode and addresses in 0..255.
RECURSIVE Cut(_)
Cut(q) ==
  IF Len(q) = 0 \/ q[1] \notin {LOAD, ADD, SAY, RET} THEN 0
  ELSE IF Len(q) < 1 + Arity(q[1]) THEN 0
  ELSE IF \E i \in AddrOperands(q[1]) : q[1 + i] \notin 0 .. 255 THEN 0
  ELSE 1 + Arity(q[1]) + Cut(Drop(q, 1 + Arity(q[1])))

WellFormed(q) == Cut(q) = Len(q)

\* q stops being well-formed at an instruction whose operands are missing.
EndsStarved(q) ==
  /\ Cut(q) < Len(q)
  /\ q[Cut(q) + 1] \in {LOAD, ADD, SAY, RET}
  /\ Len(q) - Cut(q) < 1 + Arity(q[Cut(q) + 1])

\* q stops being well-formed at a byte that is no opcode.
EndsUnknown(q) ==
  Cut(q) < Len(q) /\ q[Cut(q) + 1] \notin {LOAD, ADD, SAY, RET}

\* Positions of the RET instructions of a well-formed program, from i on.
RECURSIVE RetPositions(_, _)
RetPositions(q, i) ==
  IF i > Len(q) THEN {}
  ELSE IF q[i] = RET THEN {i} \cup RetPositions(q, i + 1)
  ELSE RetPositions(q, i + 1 + Arity(q[i]))

\* q without the bytes at the positions D, from i on.
RECURSIVE Without(_, _, _)
Without(q, D, i) ==
  IF i > Len(q) THEN <<>>
  ELSE (IF i \in D THEN <<>> ELSE <<q[i]>>) \o Without(q, D, i + 1)

\* C7: a well-formed program P' and any program P obtained from it by
\* removing some of its RET instructions (P' is P with RETs inserted at
\* instruction boundaries) end with the same memory and the same sequence
\* of announced texts when run from the same memory.
C7_RetInsertion ==
  (RunEnded /\ WellFormed(prog0)) =>
    /\ result = "returned"
    /\ \A D \in SUBSET RetPositions(prog0, 1) :
         LET r == Exec(Without(prog0, D, 1), mem0, <<>>)
         IN  memory = r.memory /\ said = said0 \o r.said

C7_Witness ==
  /\ RunEnded /\ WellFormed(prog0)
  /\ Cardinality(RetPositions(prog0, 1)) >= 3
  /\ prog0[1] = RET /\ prog0[Len(prog0)] = RET
  /\ \E i \in 2 .. Len(prog0) - 2 : i \in RetPositions(prog0, 1)
  /\ memory # mem0
  /\ said # said0

\* C8: say_text calls happen in program order, each with the text of
\* memory[addr] at the moment its SAY executes; while one is in progress
\* nothing is popped, no cell changes and no other call starts, so at most
\* one is ever in progress.
C8_SayOrdered ==
  /\ [](speaking <= 1)
  /\ []((RunEnded /\ WellFormed(prog0)) => said = said0 \o Exec(prog0, mem0, <<>>).said)
  /\ [][(pc = "ins_say" /\ Len(prog) >= 1 /\ prog[1] \in 0 .. 255)
          => (said' = Append(said, PyStr(memory[prog[1]])) /\ speaking' = 1)]_vars
  /\ [][(speaking > 0)
          => (prog' = prog /\ consumed' = consumed /\ memory' = memory /\ said' = said)]_vars

C8_Witness ==
  /\ RunEnded
  /\ prog0 = <<16, 1, 7, 18, 1, 17, 1, 1, 18, 1, 18, 0>>
  /\ said = << <<"7">>, <<"1", "4">>, <<"0">> >>
  /\ speaking = 0

\* A handler is entered with fewer operand bytes queued than it pops.
Starving ==
  \/ pc \in {"ins_load", "ins_add"} /\ Len(prog) < 2
  \/ pc = "ins_say" /\ Len(prog) < 1

\* C9: when the queue runs out inside an instruction, run() ends with the
\* IndexError of popleft (the starved-operand error) instead of returning,
\* and the truncated instruction changes no cell and announces nothing:
\* memory and announcements are those of the complete instructions before it.
C9_StarvedOperand ==
  /\ [][Starving => (pc' = "idle" /\ result' = "IndexError" /\ memory' = memory
                      /\ said' = said /\ speaking' = speaking)]_vars
  /\ []((RunEnded /\ EndsStarved(prog0)) =>
          /\ result = "IndexError"
          /\ LET r == Exec(SubSeq(prog0, 1, Cut(prog0)), mem0, <<>>)
             IN  memory = r.memory /\ said = said0 \o r.said)

C9_Witness ==
  /\ RunEnded /\ result = "IndexError"
  /\ prog0 = <<16, 0, 23, 17, 0>>
  /\ memory[0] = 23
  /\ prog = <<>>

\* run() has just popped a byte that has no handler.
UnknownFetched ==
  pc = "loop" /\ Len(prog) > 0 /\ Head(prog) \notin {LOAD, ADD, SAY, RET}

\* C10: a byte at an opcode position that is none of 0x10..0x13 ends run()
\* with the KeyError of the table lookup (the unknown-opcode error): that
\* step changes no cell and announces nothing, and the bytes after it stay
\* queued, not executed by this run() call.
C10_UnknownOpcode ==
  /\ [][UnknownFetched => (pc' = "idle" /\ result' = "KeyError" /\ memory' = memory
                            /\ said' = said /\ speaking' = speaking
                            /\ prog' = Tail(prog))]_vars
  /\ []((RunEnded /\ EndsUnknown(prog0)) =>
          /\ result = "KeyError"
          /\ Len(consumed) >= Cut(prog0) + 1
          /\ SubSeq(consumed, Len(consumed) - Cut(prog0), Len(consumed))
               = SubSeq(prog0, 1, Cut(prog0) + 1)
          /\ LET r == Exec(SubSeq(prog0, 1, Cut(prog0)), mem0, <<>>)
             IN  memory = r.memory /\ said = said0 \o r.said)

C10_Witness ==
  /\ RunEnded /\ result = "KeyError"
  /\ prog0 = <<16, 0, 23, 255, 18, 0>>
  /\ prog = <<18, 0>>
  /\ memory[0] = 23
  /\ said = <<>>

\* C11: with a robot that finishes every say_text, run() entered with a
\* well-formed queue eventually returns normally; whenever run() returns
\* normally the queue is empty; and run() entered with an empty queue
\* returns in its next step with no cell changed and nothing announced.
C11_RunTerminates ==
  /\ (result = "running" /\ WellFormed(prog0)) ~> (pc = "idle" /\ result = "returned")
  /\ [][(result' = "returned" /\ result # "returned") => prog' = <<>>]_vars
  /\ [][(result = "running" /\ prog0 = <<>>)
          => (pc' = "idle" /\ result' = "returned" /\ memory' = memory
              /\ said' = said /\ speaking' = speaking)]_vars

C11_Witness ==
  /\ RunEnded /\ result = "returned"
  /\ prog0 = <<16, 1, 7, 18, 1, 17, 1, 1, 18, 1, 18, 0>>
  /\ prog = <<>>
  /\ Len(said) = 3

\* The bytes consumed before the current/last run() was entered, when that
\* run has consumed its whole queue.
ConsumedBefore == SubSeq(consumed, 1, Len(consumed) - Len(prog0))

\* C12: memory persists between run() calls and run() is repeatable: when
\* the interpreter is in the state that one run() of a well-formed P1 from
\* construction leaves, and run() is then called on a well-formed queue P2,
\* the final memory and the whole sequence of announced texts are those of
\* a single run() of P1 followed by P2; nothing changes between the calls.
C12_SplitRuns ==
  /\ []((/\ RunEnded /\ result = "returned"
         /\ WellFormed(prog0)
         /\ Len(consumed) >= Len(prog0)
         /\ WellFormed(ConsumedBefore)
         /\ mem0 = Exec(ConsumedBefore, Zeroes, <<>>).memory
         /\ said0 = Exec(ConsumedBefore, Zeroes, <<>>).said)
        => LET r == Exec(ConsumedBefore \o prog0, Zeroes, <<>>)
           IN  memory = r.memory /\ said = r.said /\ r.result = "returned")
  /\ [][pc = "idle" => (memory' = memory /\ said' = said)]_vars

C12_Witness ==
  /\ RunEnded /\ result = "returned"
  /\ fed = Example
  /\ prog0 = <<17, 0, 1, 18, 0, 19>>
  /\ mem0[0] = 23 /\ mem0[1] = 19
  /\ memory[0] = 42
  /\ said = << <<"4", "2">> >>

\* C13: the queue is FIFO: the bytes consumed so far followed by the bytes
\* queued are exactly the bytes enqueued, in order; byte() only appends its
\* argument at the tail; the interpreter only removes bytes from the front.
C13_Fifo ==
  /\ [](fed = consumed \o prog)
  /\ [][pc = "idle" =>
          /\ consumed' = consumed
          /\ prog' = prog \/ (Len(prog') = Len(prog) + 1
                              /\ SubSeq(prog', 1, Len(prog)) = prog
                              /\ fed' = Append(fed, prog'[Len(prog')]))]_vars
  /\ [][pc # "idle" =>
          /\ fed' = fed
          /\ \E k \in 0 .. Len(prog) :
               prog' = Drop(prog, k) /\ consumed' = consumed \o SubSeq(prog, 1, k)]_vars

C13_Witness ==
  /\ pc = "idle"
  /\ consumed = <<16, 0, 23, 255>>
  /\ prog = <<18, 0>>
  /\ fed = <<16, 0, 23, 255, 18, 0>>
  /\ prog0 = <<16, 0, 23, 255>>

\* The number of SAY instructions of a well-formed program.
RECURSIVE SayCount(_)
SayCount(q) ==
  IF Len(q) = 0 THEN 0
  ELSE (IF q[1] = SAY THEN 1 ELSE 0) + SayCount(Drop(q, 1 + Arity(q[1])))

\* A handler is entered with all its operands queued and its addresses in
\* range: the instruction will execute successfully.
Executes(h, n) ==
  /\ pc = h
  /\ Len(prog) >= n
  /\ \A i \in 1 .. n : (h = "ins_add" \/ i = 1) => prog[i] \in 0 .. 255

\* C14: a successfully executed instruction removes exactly 1 + n bytes
\* from the front of the queue (1 by the fetch; n = 2 for LOAD and ADD, 1
\* for SAY, 0 for RET by the handler), so an operand is never dispatched as
\* an opcode: a run of a well-formed program announces once per SAY
\* instruction, whatever the operand values.
C14_BytesPerInstruction ==
  /\ [][(pc = "loop" /\ Len(prog) > 0) => prog' = Drop(prog, 1)]_vars
  /\ [][(Executes("ins_load", 2) \/ Executes("ins_add", 2))
          => (prog' = Drop(prog, 2) /\ pc' = "loop")]_vars
  /\ [][Executes("ins_say", 1) => (prog' = Drop(prog, 1) /\ pc' = "wait")]_vars
  /\ [][(pc \in {"ins_ret", "wait"}) => (prog' = prog)]_vars
  /\ []((RunEnded /\ WellFormed(prog0))
          => (result = "returned" /\ Len(said) = Len(said0) + SayCount(prog0)))

C14_Witness ==
  /\ RunEnded /\ result = "returned"
  /\ prog0 = <<16, 18, 19, 18, 18>>
  /\ memory[18] = 19
  /\ said = << <<"1", "9">> >>

\* C15: when run() ends in an error nothing is rolled back: memory is the
\* result of the complete instructions before the faulting one and the
\* texts of the SAYs among them have been announced, in order.
C15_NoRollback ==
  (RunEnded /\ result \in {"KeyError", "IndexError"}) =>
    /\ ~WellFormed(prog0)
    /\ LET r == Exec(SubSeq(prog0, 1, Cut(prog0)), mem0, <<>>)
       IN  memory = r.memory /\ said = said0 \o r.said /\ r.result = "returned"

C15_Witness ==
  /\ RunEnded /\ result = "IndexError"
  /\ prog0 = <<16, 0, 23, 18, 0, 18, 256, 16, 1, 5>>
  /\ memory[0] = 23 /\ memory[1] = 0
  /\ said = << <<"2", "3">> >>

\* A handler is entered with all its operands queued and an address operand
\* of 256 or more.
AddrTooLarge ==
  \/ pc \in {"ins_load", "ins_say"} /\ Len(prog) >= Arity(IF pc = "ins_load" THEN LOAD ELSE SAY)
       /\ prog[1] >= MEM_SIZE
  \/ pc = "ins_add" /\ Len(prog) >= 2 /\ (prog[1] >= MEM_SIZE \/ prog[2] >= MEM_SIZE)

\* C16: an instruction with an address operand of 256 or more ends run()
\* with the IndexError of the list access: no cell changes, nothing is
\* announced, and memory keeps its 256 cells.
C16_AddressOutOfRange ==
  /\ [](DOMAIN memory = Addr)
  /\ [][AddrTooLarge => (pc' = "idle" /\ result' = "IndexError" /\ memory' = memory
                          /\ said' = said /\ speaking' = speaking)]_vars

C16_Witness ==
  /\ RunEnded /\ result = "IndexError"
  /\ prog0 = <<16, 1, 7, 17, 1, 511, 18, 1>>
  /\ memory[1] = 7
  /\ prog = <<18, 1>>
  /\ said = <<>>

\* C17: while ins_say waits for the robot, the only thing that can happen
\* is the completion of the say_text action: until then run() does not
\* return, no byte is popped, no cell changes and no other say_text starts.
C17_BlockedInSay ==
  /\ [](pc = "wait" => (speaking = 1 /\ result = "running"))
  /\ [][pc = "wait" =>
          /\ prog' = prog /\ consumed' = consumed /\ memory' = memory /\ said' = said
          /\ result' = result
          /\ pc' = "wait" \/ (pc' = "loop" /\ speaking' = 0)]_vars

C17_Witness ==
  /\ pc = "wait" /\ speaking = 1
  /\ prog = <<17, 1, 1, 18, 1, 18, 0>>
  /\ said = << <<"7">> >>

\* C20: a faulting run() neither restores nor discards queued bytes: it
\* leaves the queue that the faulting step left (the bytes after an
\* unknown opcode; nothing after a starved operand), and the next run()
\* starts from that queue, fetching its front byte as an opcode whatever
\* that byte was meant to be.
C20_QueueAfterFault ==
  /\ [][(pc # "idle" /\ pc' = "idle") =>
          /\ result' = Exec(prog0, mem0, <<>>).result
          /\ prog' = Exec(prog0, mem0, <<>>).prog
          /\ EndsUnknown(prog0) => prog' = Drop(prog0, Cut(prog0) + 1)
          /\ EndsStarved(prog0) => prog' = <<>>]_vars
  /\ [][(pc = "idle" /\ pc' # "idle") =>
          (pc' = "loop" /\ prog' = prog /\ prog0' = prog /\ consumed' = consumed)]_vars
  /\ [][(pc = "loop" /\ Len(prog) > 0) =>
          /\ consumed' = Append(consumed, Head(prog))
          /\ Head(prog) \in {LOAD, ADD, SAY, RET} => pc' = INSTRUCTIONS[Head(prog)]
          /\ Head(prog) \notin {LOAD, ADD, SAY, RET} => result' = "KeyError"]_vars

C20_Witness ==
  /\ RunEnded /\ result = "KeyError"
  /\ fed = <<16, 0, 23, 16>>
  /\ consumed = <<16, 0, 23>>
  /\ prog0 = <<23, 16>>
  /\ prog = <<16>>
  /\ memory = Zeroes

\* read_byte has just returned and its value was passed to cpu.byte().
ByteRead == rb_pc = "prompt" /\ rb_i = 3

\* C18: every value read_byte returns, and so every value passed to
\* byte(), is in 0..255.
C18_ReadByteRange ==
  /\ ByteRead => rb_byte \in 0 .. 255
  /\ BytesFed

\* C19: read_byte returns t0 + 8*t1 + 64*t2 for the three confirmed
\* readings t0, t1, t2 in reading order (2, 5, 0 give 42), and a reading
\* that no tap confirms is discarded without changing the byte.
C19_ReadByteValue ==
  /\ [](ByteRead =>
          /\ Len(rb_conf) = 3
          /\ \A k \in 1 .. 3 : rb_conf[k] \in 0 .. 7
          /\ rb_byte = rb_conf[1] + 8 * rb_conf[2] + 64 * rb_conf[3]
          /\ fed[Len(fed)] = rb_byte
          /\ (rb_conf = <<2, 5, 0>> => rb_byte = 42))
  /\ [][(rb_redos' # rb_redos /\ rb_pc = "confirm")
          => (rb_byte' = rb_byte /\ rb_i' = rb_i /\ rb_conf' = rb_conf /\ fed' = fed
              /\ rb_pc' = "read_bits")]_vars

C19_Witness ==
  /\ ByteRead
  /\ rb_conf = <<2, 5, 0>>
  /\ rb_redos = 1
  /\ fed = <<42>>
====
